---- MODULE Spec2Model ----
(***************************************************************************)
(* A model of lib/product.js (class Product): the derived-state cache      *)
(* (#_cache), the plugins and manifest fields, plugin discovery, manifest  *)
(* composition, reinit, the plugin add/remove lifecycle, component         *)
(* resolution (this._componentsCache) and runHook.                         *)
(*                                                                         *)
(* Synchronous methods of Product run to completion, so each is one        *)
(* action.  addPlugin is async: it is cut at its awaits (line 90 and line  *)
(* 92) into one action per run-to-completion segment.                      *)
(*                                                                         *)
(* Collaborators whose code is outside lib/product.js (the cache stores,   *)
(* Config, get-plugins, Plugin, parse-package-name, the component          *)
(* resolver) are modelled at their interface.                              *)
(***************************************************************************)
EXTENDS Integers, Sequences, FiniteSets, Bags, TLC

VARIABLES
  caching,    \* config.get('core.caching'), fixed at construction
  order,      \* the order in which discovery walks the plugin dirs
  disk,       \* plugin name -> what discovery would find for it now
  cacheKeys,  \* keys present in #_cache
  cacheVal,   \* key -> value held by #_cache
  plugins,    \* this.plugins: enabled plugin names in insertion order
  manifest,   \* this.manifest: the composed manifest's entries
  gen,        \* ghost: whether each field dates from the latest reinit
  log,        \* ghost: the cache/discovery events of the last handler
  calls,      \* the addPlugin calls in flight (a bag)
  last,       \* ghost: the last handler that ran and what it returned
  reinited,   \* ghost: what the last reinit's discovery found
  prevGet,    \* ghost: the getPlugins() calls made since the last reinit
  components, \* this._componentsCache: pairs <<component key, reference>>
  inst,       \* ghost: successive getComponentInstance calls for one key
  alias       \* ghost: the store holds the very object getManifest returned

vars == <<caching, order, disk, cacheKeys, cacheVal, plugins, manifest, gen,
          log, calls, last, reinited, prevGet, components, inst, alias>>

----------------------------------------------------------------------------
(* Bounds *)

\* number of addPlugin calls that may be in flight at once
MaxCalls == 2

----------------------------------------------------------------------------
(* The plugin universe *)

PluginNames == {"core", "a", "b"}

\* the plugins addPlugin is asked to install
AddNames == {"a"}

\* names a caller may pass: bare, decorated with a version, or unknown
CallerNames == {"core", "a@1", "b", "zz"}

Statuses == {"absent", "enabled", "disabled", "invalid"}

Undefined == "undefined"

Type(n) == IF n = "core" THEN "core" ELSE "global"

\* plugin.manifest of each plugin: flat dotted key -> value
Fragment(n) ==
  CASE n = "core" ->
         [k \in {"name", "description", "enabled", "hidden", "leaf",
                 "registry.core.plugin-installer"} |->
            CASE k = "name" -> "core"
              [] k = "description" -> "the core plugin"
              [] k = "enabled" -> "true"
              [] k = "hidden" -> "true"
              [] k = "leaf" -> "core-value"
              [] OTHER -> "CoreInstaller"]
    [] n = "a" ->
         [k \in {"name", "description", "leaf", "registry.x", "load"} |->
            CASE k = "name" -> "a"
              [] k = "description" -> "plugin a"
              [] k = "leaf" -> "a-value"
              [] k = "registry.x" -> "XofA"
              [] OTHER -> Undefined]
    [] OTHER ->
         [k \in {"name", "enabled", "hidden", "leaf", "registry.x"} |->
            CASE k = "name" -> "b"
              [] k = "enabled" -> "true"
              [] k = "hidden" -> "false"
              [] k = "leaf" -> "b-value"
              [] OTHER -> "XofB"]

RegistryKeys == {"registry.core.plugin-installer", "registry.x"}

\* component keys a caller may ask for; the last has no registry entry
ComponentKeys == {"x", "nope"}

\* where the registry sub-tree of the manifest holds a component key
RegKey(key) == CASE key = "core.plugin-installer" -> "registry.core.plugin-installer"
                 [] key = "x" -> "registry.x"
                 [] OTHER -> "registry.nope"

StrippedKeys == {"name", "description", "enabled", "hidden"}

CacheKeys == {"plugins.enabled", "plugins.disabled", "plugins.invalid",
              "manifest", "hooks"}

----------------------------------------------------------------------------
(* Helpers *)

Range(s) == {s[i] : i \in 1..Len(s)}

Reverse(s) == [i \in 1..Len(s) |-> s[Len(s) + 1 - i]]

Restrict(f, S) == [k \in S |-> f[k]]

Max(S) == CHOOSE x \in S : \A y \in S : y <= x

Orders == {<<"core", "a", "b">>, <<"b", "a", "core">>}

AllOrders ==
  {<<"core", "a", "b">>, <<"core", "b", "a">>, <<"a", "core", "b">>,
   <<"a", "b", "core">>, <<"b", "core", "a">>, <<"b", "a", "core">>}

Min(x, y) == IF x < y THEN x ELSE y

----------------------------------------------------------------------------
(* The object: a record m of the instance's fields, threaded through the   *)
(* methods.  m.caching selects the store behind #_cache.                   *)

Note(m, ev) == [m EXCEPT !.log = Append(@, [ev |-> ev, keys |-> m.ck])]

EmptyVals == [k \in CacheKeys |-> <<>>]

\* FileStorage when core.caching is set, NoStorage otherwise
CacheHas(m, k) == m.caching /\ k \in m.ck

CacheGet(m, k) == IF m.caching /\ k \in m.ck THEN m.cv[k] ELSE <<>>

CacheSet(m, k, v) ==
  IF m.caching
    THEN [m EXCEPT !.ck = @ \cup {k}, !.cv[k] = v,
                   !.log = Append(@, [ev |-> "set", keys |-> m.ck \cup {k}])]
    ELSE Note(m, "set")

CacheFlush(m) ==
  [m EXCEPT !.ck = {}, !.cv = EmptyVals,
            !.log = Append(@, [ev |-> "flush", keys |-> {}])]

\* utils/get-plugins: three disjoint collections, each in discovery order
Discover(d, ord) ==
  [enabled  |-> SelectSeq(ord, LAMBDA n : d[n] = "enabled"),
   disabled |-> SelectSeq(ord, LAMBDA n : d[n] = "disabled"),
   invalids |-> SelectSeq(ord, LAMBDA n : d[n] = "invalid")]

\* utils/parse-package-name: strips a version decoration
ParsePackageName(name) == IF name = "a@1" THEN "a" ELSE name

\* Config.add: a named literal store layered after those added before it
ConfigAdd(man, name, st) == Append(man, [name |-> name, store |-> st])

\* Config.get: on a key collision the store added last wins
ConfigGet(man, k) ==
  LET idx == {i \in 1..Len(man) : k \in DOMAIN man[i].store}
  IN  IF idx = {} THEN Undefined ELSE man[Max(idx)].store[k]

\* JSON.parse(JSON.stringify(x)): members whose value is undefined are dropped
JsonClone(f) == Restrict(f, {k \in DOMAIN f : f[k] # Undefined})

SanitizedStoreKeepsHidden(n) ==
  LET c == JsonClone(Fragment(n))
  IN  Restrict(c, DOMAIN c \ {"name", "description", "enabled"})

\* the store getManifest adds for plugin n: the clone less the four fields
SanitizedStore(n) ==
  LET c == JsonClone(Fragment(n))
  IN  Restrict(c, DOMAIN c \ StrippedKeys)

ManifestOrderForward(pl) == pl

\* the order in which getManifest walks this.plugins
ManifestOrder(pl) == Reverse(pl)

RECURSIVE AddAll(_, _)
AddAll(man, names) ==
  IF names = <<>> THEN man
  ELSE AddAll(ConfigAdd(man, Head(names), SanitizedStore(Head(names))),
              Tail(names))

\* the manifest getManifest builds from a plugins mapping
Compose(pl) == AddAll(<<>>, ManifestOrder(pl))

getPluginsNoCacheCheck(m, d, ord) ==
  LET r  == Discover(d, ord)
      m1 == Note(m, "discover")
      m2 == CacheSet(m1, "plugins.disabled", r.disabled)
      m3 == CacheSet(m2, "plugins.enabled", r.enabled)
      m4 == CacheSet(m3, "plugins.invalid", r.invalids)
  IN  [m |-> m4, ret |-> r.enabled]

getPluginsAssigns(m, d, ord) ==
  IF CacheHas(m, "plugins.enabled")
    THEN [m |-> m, ret |-> CacheGet(m, "plugins.enabled")]
    ELSE LET r  == Discover(d, ord)
             m1 == Note(m, "discover")
             m2 == CacheSet(m1, "plugins.disabled", r.disabled)
             m3 == CacheSet(m2, "plugins.enabled", r.enabled)
             m4 == CacheSet(m3, "plugins.invalid", r.invalids)
         IN  [m |-> [m4 EXCEPT !.plugins = r.enabled], ret |-> r.enabled]

getPlugins(m, d, ord) ==
  IF CacheHas(m, "plugins.enabled")
    THEN [m |-> m, ret |-> CacheGet(m, "plugins.enabled")]
    ELSE LET r  == Discover(d, ord)
             m1 == Note(m, "discover")
             m2 == CacheSet(m1, "plugins.disabled", r.disabled)
             m3 == CacheSet(m2, "plugins.enabled", r.enabled)
             m4 == CacheSet(m3, "plugins.invalid", r.invalids)
         IN  [m |-> m4, ret |-> r.enabled]

getManifestAccumulating(m) ==
  IF CacheHas(m, "manifest")
    THEN [m |-> [m EXCEPT !.alias = FALSE], ret |-> CacheGet(m, "manifest")]
    ELSE LET man == AddAll(m.manifest, ManifestOrder(m.plugins))
             m1  == Note(m, "compose")
             m2  == CacheSet(m1, "manifest", man)
         IN  [m |-> [m2 EXCEPT !.alias = CacheHas(m2, "manifest")],
              ret |-> man]

\* m.alias: whether the object returned is the object the store now holds
\* under 'manifest'.  A hit returns a new Config around the stored value; a
\* miss hands the Config it built to set() and returns that same Config.
getManifest(m) ==
  IF CacheHas(m, "manifest")
    THEN [m |-> [m EXCEPT !.alias = FALSE], ret |-> CacheGet(m, "manifest")]
    ELSE LET man == Compose(m.plugins)
             m1  == Note(m, "compose")
             m2  == CacheSet(m1, "manifest", man)
         IN  [m |-> [m2 EXCEPT !.alias = CacheHas(m2, "manifest")],
              ret |-> man]

getHooks(m) ==
  IF CacheHas(m, "hooks")
    THEN [m |-> m, ret |-> CacheGet(m, "hooks")]
    ELSE [m |-> CacheSet(m, "hooks", <<>>), ret |-> <<>>]

getPlugin(m, name) ==
  LET n == ParsePackageName(name)
  IN  IF n \in Range(m.plugins) THEN n ELSE Undefined

getRegistry(m) ==
  LET ks == {k \in RegistryKeys : ConfigGet(m.manifest, k) # Undefined}
  IN  [k \in ks |-> ConfigGet(m.manifest, k)]

\* the resolver: a reference the cache scope holds is returned as it is;
\* otherwise the key is looked up in the registry and the reference kept
ResolveComponent(reg, cache, key) ==
  IF \E p \in cache : p[1] = key
    THEN [err |-> "none", ref |-> (CHOOSE p \in cache : p[1] = key)[2],
          cache |-> cache]
  ELSE IF RegKey(key) \notin DOMAIN reg
    THEN [err |-> "NotFound", ref |-> Undefined, cache |-> cache]
  ELSE [err |-> "none", ref |-> reg[RegKey(key)],
        cache |-> cache \cup {<<key, reg[RegKey(key)]>>}]

\* getComponent(component, {cache = this._componentsCache}): scope is
\* "default" when the caller passes no cache, "fresh" for a cache of its own
getComponent(m, key, scope) ==
  LET r == ResolveComponent(getRegistry(m),
                            IF scope = "default" THEN m.cc ELSE {}, key)
  IN  [m   |-> IF scope = "default" THEN [m EXCEPT !.cc = r.cache] ELSE m,
       err |-> r.err,
       ret |-> <<r.ref>>]

\* the instance resolver: an instance the cache scope holds is returned,
\* otherwise the registry entry is constructed; without a scope nothing is
\* held
ResolveInstance(reg, held, key) ==
  IF held THEN [err |-> "none", constructed |-> FALSE]
  ELSE IF RegKey(key) \notin DOMAIN reg
    THEN [err |-> "NotFound", constructed |-> FALSE]
  ELSE [err |-> "none", constructed |-> TRUE]

\* getComponentInstance(component, constructor, opts): the scope handed to
\* the resolver is opts.cache, which is undefined when the caller passes
\* none ("none") and empty when the caller passes a fresh one ("fresh")
getComponentInstance(m, key, scope) ==
  LET r == ResolveInstance(getRegistry(m), FALSE, key)
  IN  [m |-> m, err |-> r.err, constructed |-> r.constructed]

\* runHook: what is handed to the hook runner
runHook(m, event) ==
  [event |-> event, hooks |-> m.hooks, context |-> {m.id, "product"}]

_initManifestFirst(m, d, ord) ==
  LET g  == getManifest(m)
      m1 == [g.m EXCEPT !.manifest = g.ret, !.gen.manifest = "current"]
      p  == getPlugins(m1, d, ord)
  IN  [p.m EXCEPT !.plugins = p.ret, !.gen.plugins = "current"]

_initPluginsOnly(m, d, ord) ==
  LET p == getPlugins(m, d, ord)
  IN  [p.m EXCEPT !.plugins = p.ret, !.gen.plugins = "current"]

_init(m, d, ord) ==
  LET p  == getPlugins(m, d, ord)
      m1 == [p.m EXCEPT !.plugins = p.ret, !.gen.plugins = "current"]
      g  == getManifest(m1)
  IN  [g.m EXCEPT !.manifest = g.ret, !.gen.manifest = "current"]

\* a reinit begins: what the fields hold dates from an earlier generation
NextEpoch(m) == [m EXCEPT !.gen = [plugins |-> "earlier", manifest |-> "earlier"]]

_reintNoFlush(m, d, ord) == _init(NextEpoch(m), d, ord)

_reintDropsPluginsOnly(m, d, ord) ==
  LET m1 == [m EXCEPT !.ck = @ \ {"plugins.enabled"},
                      !.log = Append(@, [ev |-> "flush",
                                         keys |-> m.ck \ {"plugins.enabled"}])]
  IN  _init(NextEpoch(m1), d, ord)

_reint(m, d, ord) == _init(CacheFlush(NextEpoch(m)), d, ord)

----------------------------------------------------------------------------
(* Plugin lifecycle methods *)

\* Plugin.remove(): deletes the plugin from its directory, or raises
PluginRemove(d, n, outcome) ==
  IF outcome = "removed" THEN [d EXCEPT ![n] = "absent"] ELSE d

\* Plugin.fetch(): what a completed installation leaves in the plugin dir
PluginFetch(d, n, status) == [d EXCEPT ![n] = status]

\* the resolver's lookup of core.plugin-installer in the registry
InstallerResolves(m) ==
  "registry.core.plugin-installer" \in DOMAIN getRegistry(m)

removePluginNoCoreCheck(m, d, ord, name, outcome) ==
  LET plugin == getPlugin(m, name)
  IN  IF plugin = Undefined
        THEN [m |-> m, disk |-> d, err |-> "NotFound", ret |-> <<>>]
      ELSE IF outcome = "throws"
        THEN [m |-> Note(m, "remove"), disk |-> d, err |-> "RemoveError",
              ret |-> <<>>]
      ELSE LET d2 == PluginRemove(d, plugin, outcome)
           IN  [m |-> _reint(Note(m, "remove"), d2, ord), disk |-> d2,
                err |-> "none", ret |-> <<plugin>>]

removePluginNoFoundCheck(m, d, ord, name, outcome) ==
  LET plugin == getPlugin(m, name)
  IN  IF plugin # Undefined /\ Type(plugin) = "core"
        THEN [m |-> m, disk |-> d, err |-> "Protected", ret |-> <<>>]
      ELSE IF outcome = "throws"
        THEN [m |-> Note(m, "remove"), disk |-> d, err |-> "RemoveError",
              ret |-> <<>>]
      ELSE LET d2 == IF plugin = Undefined THEN d
                     ELSE PluginRemove(d, plugin, outcome)
           IN  [m |-> _reint(Note(m, "remove"), d2, ord), disk |-> d2,
                err |-> "none", ret |-> <<plugin>>]

removePluginNoReinit(m, d, ord, name, outcome) ==
  LET plugin == getPlugin(m, name)
  IN  IF plugin = Undefined
        THEN [m |-> m, disk |-> d, err |-> "NotFound", ret |-> <<>>]
      ELSE IF Type(plugin) = "core"
        THEN [m |-> m, disk |-> d, err |-> "Protected", ret |-> <<>>]
      ELSE IF outcome = "throws"
        THEN [m |-> Note(m, "remove"), disk |-> d, err |-> "RemoveError",
              ret |-> <<>>]
      ELSE [m |-> Note(m, "remove"), disk |-> PluginRemove(d, plugin, outcome),
            err |-> "none", ret |-> <<plugin>>]

removePluginReinitOnThrow(m, d, ord, name, outcome) ==
  LET plugin == getPlugin(m, name)
  IN  IF plugin = Undefined
        THEN [m |-> m, disk |-> d, err |-> "NotFound", ret |-> <<>>]
      ELSE IF Type(plugin) = "core"
        THEN [m |-> m, disk |-> d, err |-> "Protected", ret |-> <<>>]
      ELSE IF outcome = "throws"
        THEN [m |-> _reint(Note(m, "remove"), d, ord), disk |-> d,
              err |-> "RemoveError", ret |-> <<>>]
      ELSE LET d2 == PluginRemove(d, plugin, outcome)
           IN  [m |-> _reint(Note(m, "remove"), d2, ord), disk |-> d2,
                err |-> "none", ret |-> <<plugin>>]

removePlugin(m, d, ord, name, outcome) ==
  LET plugin == getPlugin(m, name)
  IN  IF plugin = Undefined
        THEN [m |-> m, disk |-> d, err |-> "NotFound", ret |-> <<>>]
      ELSE IF Type(plugin) = "core"
        THEN [m |-> m, disk |-> d, err |-> "Protected", ret |-> <<>>]
      ELSE IF outcome = "throws"
        THEN [m |-> Note(m, "remove"), disk |-> d, err |-> "RemoveError",
              ret |-> <<>>]
      ELSE LET d2 == PluginRemove(d, plugin, outcome)
           IN  [m |-> _reint(Note(m, "remove"), d2, ord), disk |-> d2,
                err |-> "none", ret |-> <<plugin>>]

addPluginReinitAlways(m, d, ord, fetched) == _reint(m, d, ord)

addPluginNoReinit(m, d, ord, fetched) == m

\* addPlugin after its awaits: a rejection leaves through the await, a
\* fetched plugin goes on to the reinit
addPlugin(m, d, ord, fetched) == IF fetched THEN _reint(m, d, ord) ELSE m

----------------------------------------------------------------------------
(* State machine *)

\* this.hooks: no line of the class assigns it
Unassigned == [defined |-> FALSE, list |-> <<>>]

NoInst == [key |-> "", n |-> 0, built |-> 0]

M == [caching |-> caching, ck |-> cacheKeys, cv |-> cacheVal,
      plugins |-> plugins, manifest |-> manifest, gen |-> gen,
      log |-> <<[ev |-> "begin", keys |-> cacheKeys]>>,
      cc |-> components, hooks |-> Unassigned, id |-> "lando",
      inst |-> NoInst, alias |-> FALSE]

Commit(m) ==
  /\ cacheKeys' = m.ck
  /\ cacheVal' = m.cv
  /\ plugins' = m.plugins
  /\ manifest' = m.manifest
  /\ gen' = m.gen
  /\ log' = m.log
  /\ components' = m.cc
  /\ inst' = m.inst
  /\ alias' = m.alias

Events(l) == [i \in 1..Len(l) |-> l[i].ev]

Count(l, ev) == Cardinality({i \in 1..Len(l) : l[i].ev = ev})

Did(op, arg, err, ret) == [op |-> op, arg |-> arg, err |-> err, ret |-> ret]

NoPrev == [n |-> 0, ret |-> <<>>, same |-> TRUE, disc |-> 0]

Found(d) == [done |-> TRUE, enabled |-> Discover(d, order).enabled]

Call(pc, name, ok) == [pc |-> pc, name |-> name, ok |-> ok]

\* what an earlier session left in the persistent store: nothing, or the
\* entries its own init wrote for the plugin dirs as they were then
PriorDisks == {[n \in PluginNames |-> IF n = "b" THEN "absent" ELSE "enabled"]}

Blank(c) == [caching |-> c, ck |-> {}, cv |-> EmptyVals, plugins |-> <<>>,
             manifest |-> <<>>,
             gen |-> [plugins |-> "earlier", manifest |-> "earlier"],
             log |-> <<[ev |-> "begin", keys |-> {}]>>,
             cc |-> {}, hooks |-> Unassigned, id |-> "lando",
             inst |-> NoInst, alias |-> FALSE]

\* the constructor: pick the store, drop a stale cache dir when caching is
\* off, then the first init
constructor(c, prior, d, ord) ==
  LET m0 == IF c THEN [Blank(c) EXCEPT !.ck = prior.ck, !.cv = prior.cv,
                         !.log = <<[ev |-> "begin", keys |-> prior.ck]>>]
            ELSE Blank(c)
  IN  _init(m0, d, ord)

Init ==
  /\ caching \in BOOLEAN
  /\ order \in Orders
  /\ disk \in [PluginNames -> {"absent", "enabled"}]
  /\ \E prior \in {Blank(TRUE)} \cup
                  {_init(Blank(TRUE), d0, order) : d0 \in PriorDisks} :
       LET m == constructor(caching, prior, disk, order)
       IN  /\ cacheKeys = m.ck
           /\ cacheVal = m.cv
           /\ plugins = m.plugins
           /\ manifest = m.manifest
           /\ gen = m.gen
           /\ log = m.log
           /\ components = m.cc
           /\ inst = m.inst
           /\ alias = m.alias
  /\ calls = EmptyBag
  /\ last = Did("constructor", "", "none", <<>>)
  /\ reinited = [done |-> FALSE, enabled |-> <<>>]
  /\ prevGet = NoPrev

Reinit ==
  /\ Commit(_reint(M, disk, order))
  /\ last' = Did("reinit", "", "none", <<>>)
  /\ reinited' = Found(disk)
  /\ prevGet' = NoPrev
  /\ UNCHANGED <<caching, order, disk, calls>>

GetPlugins ==
  LET r == getPlugins(M, disk, order)
  IN  /\ Commit(r.m)
      /\ last' = Did("getPlugins", "", "none", r.ret)
      /\ prevGet' = [n    |-> Min(prevGet.n + 1, 2),
                     ret  |-> r.ret,
                     same |-> prevGet.same /\ (prevGet.n = 0 \/ r.ret = prevGet.ret),
                     disc |-> Min(prevGet.disc + Count(r.m.log, "discover"), 2)]
      /\ UNCHANGED <<caching, order, disk, calls, reinited>>

GetManifest ==
  LET r == getManifest(M)
  IN  /\ Commit(r.m)
      /\ last' = Did("getManifest", "", "none", r.ret)
      /\ UNCHANGED <<caching, order, disk, calls, reinited, prevGet>>

GetHooks ==
  LET r == getHooks(M)
  IN  /\ Commit(r.m)
      /\ last' = Did("getHooks", "", "none", r.ret)
      /\ UNCHANGED <<caching, order, disk, calls, reinited, prevGet>>

GetPlugin ==
  \E name \in CallerNames :
    /\ Commit(M)
    /\ last' = Did("getPlugin", name, "none", <<getPlugin(M, name)>>)
    /\ UNCHANGED <<caching, order, disk, calls, reinited, prevGet>>

GetRegistry ==
  /\ Commit(M)
  /\ last' = Did("getRegistry", "", "none", <<getRegistry(M)>>)
  /\ UNCHANGED <<caching, order, disk, calls, reinited, prevGet>>

GetComponent ==
  \E key \in ComponentKeys, scope \in {"default", "fresh"} :
    LET r == getComponent(M, key, scope)
    IN  /\ Commit(r.m)
        /\ last' = Did("getComponent", key, r.err, r.ret)
        /\ UNCHANGED <<caching, order, disk, calls, reinited, prevGet>>

\* getComponentInstance as one step: the instance is constructed without
\* an initializer that suspends
GetComponentInstance ==
  \E key \in ComponentKeys, scope \in {"none", "fresh"} :
    LET r    == getComponentInstance(M, key, scope)
        c    == IF r.constructed THEN 1 ELSE 0
        same == inst.key = key
        next == IF scope = "none" /\ r.err = "none"
                  THEN [key   |-> key,
                        n     |-> IF same THEN Min(inst.n + 1, 2) ELSE 1,
                        built |-> IF same THEN Min(inst.built + c, 2) ELSE c]
                  ELSE NoInst
    IN  /\ Commit([r.m EXCEPT !.inst = next])
        /\ last' = Did("getComponentInstance", key, r.err,
                       <<[scope |-> scope, constructed |-> r.constructed]>>)
        /\ UNCHANGED <<caching, order, disk, calls, reinited, prevGet>>

RunHook ==
  /\ Commit(M)
  /\ last' = Did("runHook", "event", "none", <<runHook(M, "event")>>)
  /\ UNCHANGED <<caching, order, disk, calls, reinited, prevGet>>

RemovePlugin ==
  \E name \in CallerNames, outcome \in {"removed", "throws"} :
    LET r == removePlugin(M, disk, order, name, outcome)
    IN  /\ Commit(r.m)
        /\ disk' = r.disk
        /\ last' = Did("removePlugin", name, r.err, r.ret)
        /\ reinited' = IF r.err = "none" THEN Found(r.disk) ELSE reinited
        /\ prevGet' = IF r.err = "none" THEN NoPrev ELSE prevGet
        /\ UNCHANGED <<caching, order, calls>>

\* addPlugin up to its first await: the installer component is looked up
\* in the registry as it is now
AddPluginCall ==
  \E name \in AddNames :
    /\ BagCardinality(calls) < MaxCalls
    /\ calls' = calls (+) SetToBag({Call("pending", name, InstallerResolves(M))})
    /\ Commit(M)
    /\ last' = Did("addPlugin.call", name, "none", <<>>)
    /\ UNCHANGED <<caching, order, disk, reinited, prevGet>>

\* the fetch writes the plugin into the plugin dir; its promise is not
\* settled yet
AddPluginInstall ==
  \E c \in BagToSet(calls), status \in {"enabled", "disabled", "invalid"} :
    /\ c.pc = "pending"
    /\ c.ok
    /\ disk' = PluginFetch(disk, c.name, status)
    /\ calls' = (calls (-) SetToBag({c}))
                  (+) SetToBag({Call("fetched", c.name, TRUE)})
    /\ Commit(M)
    /\ last' = Did("fetch.install", c.name, "none", <<>>)
    /\ UNCHANGED <<caching, order, reinited, prevGet>>

\* the installer lookup or the fetch rejects: addPlugin rejects with it
AddPluginReject ==
  \E c \in BagToSet(calls) :
    /\ c.pc = "pending"
    /\ Commit(addPlugin(M, disk, order, FALSE))
    /\ calls' = calls (-) SetToBag({c})
    /\ last' = Did("addPlugin", c.name,
                   IF c.ok THEN "FetchError" ELSE "NotFound", <<>>)
    /\ UNCHANGED <<caching, order, disk, reinited, prevGet>>

\* the fetch resolved: reinit, then return the plugin
AddPluginResume ==
  \E c \in BagToSet(calls) :
    /\ c.pc = "fetched"
    /\ Commit(addPlugin(M, disk, order, TRUE))
    /\ calls' = calls (-) SetToBag({c})
    /\ last' = Did("addPlugin", c.name, "none", <<c.name>>)
    /\ reinited' = Found(disk)
    /\ prevGet' = NoPrev
    /\ UNCHANGED <<caching, order, disk>>

Next ==
  \/ Reinit
  \/ GetPlugins
  \/ GetManifest
  \/ GetHooks
  \/ GetPlugin
  \/ GetRegistry
  \/ RunHook
  \/ RemovePlugin
  \/ AddPluginCall
  \/ AddPluginInstall
  \/ AddPluginReject
  \/ AddPluginResume

Spec == Init /\ [][Next]_vars

\* the whole interface, component resolution included, from a store that is
\* empty at construction
InitComponents ==
  /\ caching \in BOOLEAN
  /\ order = <<"core", "a", "b">>
  /\ disk \in {[n \in PluginNames |-> "enabled"],
               [n \in PluginNames |-> IF n = "a" THEN "enabled" ELSE "absent"]}
  /\ LET m == constructor(caching, Blank(TRUE), disk, order)
     IN  /\ cacheKeys = m.ck
         /\ cacheVal = m.cv
         /\ plugins = m.plugins
         /\ manifest = m.manifest
         /\ gen = m.gen
         /\ log = m.log
         /\ components = m.cc
         /\ inst = m.inst
         /\ alias = m.alias
  /\ calls = EmptyBag
  /\ last = Did("constructor", "", "none", <<>>)
  /\ reinited = [done |-> FALSE, enabled |-> <<>>]
  /\ prevGet = NoPrev

NextComponents ==
  \/ Next
  \/ GetComponent
  \/ GetComponentInstance

SpecComponents == InitComponents /\ [][NextComponents]_vars

\* getManifest as a function of its inputs: every discovery order and every
\* state of the plugin dirs, an empty store at construction
InitManifest ==
  /\ caching \in BOOLEAN
  /\ order \in AllOrders
  /\ disk \in [PluginNames -> Statuses]
  /\ LET m == constructor(caching, Blank(TRUE), disk, order)
     IN  /\ cacheKeys = m.ck
         /\ cacheVal = m.cv
         /\ plugins = m.plugins
         /\ manifest = m.manifest
         /\ gen = m.gen
         /\ log = m.log
         /\ components = m.cc
         /\ inst = m.inst
         /\ alias = m.alias
  /\ calls = EmptyBag
  /\ last = Did("constructor", "", "none", <<>>)
  /\ reinited = [done |-> FALSE, enabled |-> <<>>]
  /\ prevGet = NoPrev

NextManifest ==
  \/ Reinit
  \/ GetManifest
  \/ RemovePlugin

SpecManifest == InitManifest /\ [][NextManifest]_vars

----------------------------------------------------------------------------
(* Properties *)

Rediscovered == Discover(disk, order)

\* C1 (as stated): once a reinit has returned and until the next one,
\* getPlugins() returns the enabled set that reinit's discovery found and
\* getManifest() returns the manifest composed from that same set, with the
\* persistent store and with the no-op store.
C1_AtomicInvalidation ==
  reinited.done =>
    /\ getPlugins(M, disk, order).ret = reinited.enabled
    /\ getManifest(M).ret = Compose(reinited.enabled)

\* C1 (amended): once a reinit has returned and until the next one, the
\* plugins field holds the set that reinit's discovery found and
\* getManifest() returns the manifest composed from it, with either store;
\* getPlugins() returns that set with the persistent store, and with the
\* no-op store it returns a fresh discovery of the plugin dirs.
C1_AtomicInvalidationPerStore ==
  reinited.done =>
    /\ plugins = reinited.enabled
    /\ getManifest(M).ret = Compose(reinited.enabled)
    /\ caching => getPlugins(M, disk, order).ret = reinited.enabled
    /\ ~caching => getPlugins(M, disk, order).ret = Rediscovered.enabled

\* the plugin dirs have moved on since the reinit and the persistent store
\* still answers getPlugins() with the reinit's set
C1_Witness ==
  /\ reinited.done
  /\ caching
  /\ last.op = "getPlugins"
  /\ last.ret = reinited.enabled
  /\ Rediscovered.enabled # reinited.enabled

\* C2 (as stated): two getPlugins() calls with no reinit between them return
\* the same collection and run discovery at most once between them, with
\* either store.
C2_GetPluginsIdempotent ==
  prevGet.n = 2 => prevGet.same /\ prevGet.disc <= 1

\* C2 (amended): with the persistent store, two getPlugins() calls with no
\* reinit between them return the same collection and run discovery at most
\* once; with the no-op store every getPlugins() call runs discovery and
\* returns what the plugin dirs hold at that moment.
C2_GetPluginsIdempotentWhenCaching ==
  /\ caching /\ prevGet.n = 2 => prevGet.same /\ prevGet.disc <= 1
  /\ ~caching /\ last.op = "getPlugins" =>
       /\ Count(log, "discover") = 1
       /\ last.ret = Rediscovered.enabled

\* a second getPlugins() call served from the persistent store although the
\* plugin dirs changed after the first discovery
C2_Witness ==
  /\ caching
  /\ prevGet.n = 2
  /\ last.op = "getPlugins"
  /\ Rediscovered.enabled # last.ret

EntryNames(man) == [i \in 1..Len(man) |-> man[i].name]

DeclaredByAll(pl) ==
  {k \in UNION {DOMAIN Fragment(n) : n \in PluginNames} :
     /\ k \notin StrippedKeys
     /\ \A i \in 1..Len(pl) : k \in DOMAIN Fragment(pl[i])}

OverrideOrder(pl, man) ==
  /\ EntryNames(man) = Reverse(pl)
  /\ pl # <<>> =>
       \A k \in DeclaredByAll(pl) : ConfigGet(man, k) = Fragment(pl[1])[k]

\* C3: for enabled plugins discovered in the order P1..Pn that all declare a
\* leaf key, getManifest() adds the fragments in reverse discovery order and
\* the composed value of that key is P1's.
C3_FirstDiscoveredWins ==
  /\ OverrideOrder(plugins, manifest)
  /\ OverrideOrder(plugins, getManifest(M).ret)

\* three enabled plugins that collide on a key, composed by a reinit
C3_Witness ==
  /\ Len(plugins) = 3
  /\ last.op = "reinit"
  /\ "leaf" \in DeclaredByAll(plugins)
  /\ ConfigGet(manifest, "leaf") = Fragment(order[1])["leaf"]

CallerPlugin == getPlugin(M, last'.arg)

NothingTouched ==
  /\ UNCHANGED <<cacheKeys, cacheVal, plugins, manifest, gen, disk, reinited>>
  /\ Events(log') = <<"begin">>

\* C4: removePlugin on a plugin of type core fails with Protected, does not
\* call the plugin's remove(), does no reinit, and leaves the store and the
\* plugins and manifest fields as they were.
C4_ProtectedRemoval ==
  [][(/\ last'.op = "removePlugin"
      /\ CallerPlugin # Undefined
      /\ Type(CallerPlugin) = "core")
       => (last'.err = "Protected" /\ NothingTouched)]_vars

\* removePlugin('core') was refused while core is an enabled plugin
C4_Witness ==
  /\ last.op = "removePlugin"
  /\ last.arg = "core"
  /\ last.err = "Protected"
  /\ "core" \in Range(plugins)

\* C5: removePlugin of a name that is not in the plugins mapping fails with
\* NotFound, does no reinit, and leaves the store and the plugins and
\* manifest fields as they were.
C5_UnknownRemoval ==
  [][(last'.op = "removePlugin" /\ CallerPlugin = Undefined)
       => (last'.err = "NotFound" /\ NothingTouched)]_vars

\* removePlugin of an unknown name was refused
C5_Witness ==
  /\ last.op = "removePlugin"
  /\ last.arg = "zz"
  /\ last.err = "NotFound"
  /\ plugins # <<>>

\* C6: an addPlugin that fails (installer not resolved, or the fetch
\* rejects) hands the error to its caller and none of its steps flushes the
\* store or assigns the plugins or manifest field.
C6_FailedAddLeavesCache ==
  [][(\/ last'.op = "addPlugin.call"
      \/ last'.op = "addPlugin" /\ last'.err # "none")
       => /\ UNCHANGED <<cacheKeys, cacheVal, plugins, manifest, gen, reinited>>
          /\ Count(log', "flush") = 0
          /\ last'.op = "addPlugin" => last'.err \in {"NotFound", "FetchError"}]_vars

\* an addPlugin failed in a state where a reinit would have changed plugins
C6_Witness ==
  /\ last.op = "addPlugin"
  /\ last.err = "FetchError"
  /\ Rediscovered.enabled # plugins

Resolved == last.op = "addPlugin" /\ last.err = "none"

ResolvedAfterReinit ==
  /\ plugins = Rediscovered.enabled
  /\ manifest = Compose(plugins)
  /\ Count(log, "flush") = 1
  /\ caching => /\ cacheVal["plugins.enabled"] = Rediscovered.enabled
                /\ cacheVal["plugins.disabled"] = Rediscovered.disabled
                /\ cacheVal["plugins.invalid"] = Rediscovered.invalids

Collections ==
  Range(plugins) \cup
    (IF caching
       THEN Range(cacheVal["plugins.disabled"]) \cup
            Range(cacheVal["plugins.invalid"])
       ELSE Range(Rediscovered.disabled) \cup Range(Rediscovered.invalids))

\* C7 (as stated): when addPlugin resolves, the fetch has completed and a
\* reinit that began after it has completed, so the plugins and manifest
\* fields come from a discovery made after the installation and the
\* returned descriptor is in the enabled, disabled or invalid collection.
C7_AddResolvesAfterReinit ==
  Resolved => ResolvedAfterReinit /\ last.ret[1] \in Collections

\* C7 (amended): when addPlugin resolves, the fetch has completed and a
\* reinit that began after it has completed, so the plugins and manifest
\* fields come from a discovery made after the installation; the returned
\* descriptor is in the enabled, disabled or invalid collection unless the
\* plugin was removed from the plugin dirs again before that reinit.
C7_AddResolvesAfterReinitUnlessRemoved ==
  Resolved =>
    /\ ResolvedAfterReinit
    /\ disk[last.arg] # "absent" => last.ret[1] \in Collections

\* addPlugin resolved with a plugin that the reinit found disabled
C7_Witness ==
  /\ Resolved
  /\ disk[last.arg] = "disabled"
  /\ last.ret[1] \in Range(cacheVal["plugins.disabled"])

ReinitEvents == <<"flush", "discover", "set", "set", "set", "compose", "set">>

FromFlush(l) ==
  LET i == CHOOSE j \in 1..Len(l) : l[j].ev = "flush" /\
                                    \A h \in 1..(j - 1) : l[h].ev # "flush"
  IN  SubSeq(Events(l), i, Len(l))

\* C8: whatever addPlugin calls are in flight, a reinit runs flush, then
\* discovery, then manifest composition with no step of another reinit in
\* between, and wherever caller code can run the plugins and manifest fields
\* date from the same reinit.
C8_ReinitAtomic ==
  /\ gen.plugins = "current"
  /\ gen.manifest = "current"
  /\ Count(log, "flush") > 0 => FromFlush(log) = ReinitEvents

\* a removePlugin ran its reinit while two addPlugin calls were suspended
C8_Witness ==
  /\ BagCardinality(calls) = 2
  /\ last.op = "removePlugin"
  /\ last.err = "none"
  /\ Count(log, "flush") = 1

\* C9: cache keys are never removed one by one: a step that removes a key
\* removes them all, and that step is the flush of a reinit.
C9_KeysInvalidatedTogether ==
  \A i \in 1..(Len(log) - 1) :
    log[i].keys \ log[i + 1].keys # {} =>
      log[i + 1].keys = {} /\ log[i + 1].ev = "flush"

\* a flush that dropped the plugin keys, the manifest and the hooks at once
C9_Witness ==
  \E i \in 1..(Len(log) - 1) :
    /\ log[i].keys = CacheKeys
    /\ log[i + 1].ev = "flush"
    /\ log[i + 1].keys = {}

NoStrippedKeys(man) ==
  \A i \in 1..Len(man) : DOMAIN man[i].store \cap StrippedKeys = {}

\* C10: no entry of the composed manifest carries the keys name,
\* description, enabled or hidden of the plugin's fragment.
C10_FieldsStripped ==
  /\ NoStrippedKeys(manifest)
  /\ NoStrippedKeys(getManifest(M).ret)

\* a composed manifest holding the entry of a plugin whose fragment carried
\* all four fields
C10_Witness ==
  /\ last.op = "getManifest"
  /\ \E i \in 1..Len(last.ret) :
       /\ StrippedKeys \subseteq DOMAIN Fragment(last.ret[i].name)
       /\ "leaf" \in DOMAIN last.ret[i].store


\* C11: with zero enabled plugins the composed manifest is empty, the
\* registry is empty, and getComponent fails with NotFound for every key.
C11_EmptySystem ==
  plugins = <<>> =>
    /\ manifest = <<>>
    /\ getManifest(M).ret = <<>>
    /\ DOMAIN getRegistry(M) = {}
    /\ \A key \in ComponentKeys :
         getComponent(M, key, "default").err = "NotFound"

\* C12: two successive getComponentInstance calls for a key that pass no
\* cache option construct the instance at most once, and a call that passes
\* a fresh cache constructs a new instance.
C12_InstanceCachedByDefault ==
  /\ inst.n = 2 => inst.built <= 1
  /\ (/\ last.op = "getComponentInstance"
      /\ last.err = "none"
      /\ last.ret[1].scope = "fresh") => last.ret[1].constructed

\* C13: the hook list runHook hands to the runner is the list getHooks()
\* returns in that state, and the context maps the configured id and
\* 'product' to the instance.
C13_RunHookUsesCachedHooks ==
  last.op = "runHook" =>
    /\ last.ret[1].hooks = [defined |-> TRUE, list |-> getHooks(M).ret]
    /\ last.ret[1].context = {"lando", "product"}

Writers ==
  \/ last'.op = "reinit"
  \/ last'.op \in {"addPlugin", "removePlugin"} /\ last'.err = "none"

\* C14: between operations the manifest field, and what getManifest()
\* returns, is the composition of the plugins field's sanitized fragments,
\* and only the rebuild of a reinit changes the manifest.
C14_ManifestFunctionOfPlugins ==
  /\ manifest = Compose(plugins)
  /\ [][/\ manifest' = Compose(plugins')
        /\ getManifest(M).ret = Compose(plugins)
        /\ manifest' # manifest =>
             Writers /\ Count(log', "flush") = 1 /\ Count(log', "compose") = 1]_vars

\* a reinit that changed the plugins field and rebuilt the manifest from it
C14_Witness ==
  /\ last.op = "addPlugin"
  /\ last.err = "none"
  /\ Len(plugins) = 3
  /\ manifest = Compose(plugins)
  /\ Len(reinited.enabled) = 3
  /\ Count(log, "compose") = 1

Removed == last.op = "removePlugin" /\ last.err = "none"

\* C15: a successful removePlugin calls the plugin's remove() once, then
\* reinits, then returns the removed plugin; when it returns getPlugin(name)
\* is absent and the manifest has no entry for the plugin.
C15_RemoveThenReinit ==
  Removed =>
    /\ Events(log) = <<"begin", "remove">> \o ReinitEvents
    /\ last.ret = <<ParsePackageName(last.arg)>>
    /\ getPlugin(M, last.arg) = Undefined
    /\ last.ret[1] \notin Range(EntryNames(manifest))
    /\ last.ret[1] \notin Range(EntryNames(getManifest(M).ret))

\* removePlugin('a@1') returned plugin a while another plugin stays enabled
C15_Witness ==
  /\ Removed
  /\ last.arg = "a@1"
  /\ last.ret = <<"a">>
  /\ plugins # <<>>

Once(x) == _init(x, disk, order)

Twice(x) == _init(Once(x), disk, order)

Idempotent(x) ==
  /\ Twice(x).plugins = Once(x).plugins
  /\ Twice(x).manifest = Once(x).manifest
  /\ Twice(x).ck = Once(x).ck
  /\ Twice(x).cv = Once(x).cv

\* init is applied to the object as it is and to the object as a flush
\* leaves it
InitInputs == {M, CacheFlush(M)}

\* C16 (as stated): init run twice with no flush in between leaves the
\* plugins field, the manifest field and the store as one run does, and a
\* run has no effect other than assigning plugins and manifest.
C16_InitIdempotent ==
  \A x \in InitInputs :
    /\ Idempotent(x)
    /\ Once(x).ck = x.ck
    /\ Once(x).cv = x.cv

\* C16 (amended): init run twice with no flush in between leaves the
\* plugins field, the manifest field and the store as one run does; besides
\* assigning plugins and manifest a run writes the plugin keys and the
\* manifest key the store lacks, and nothing else.
C16_InitIdempotentFillsCache ==
  \A x \in InitInputs :
    /\ Idempotent(x)
    /\ Once(x).ck \ x.ck \subseteq CacheKeys \ {"hooks"}
    /\ \A k \in x.ck : Once(x).cv[k] = x.cv[k]
    /\ Once(x).cc = x.cc

\* the constructor's init ran on the entries an earlier session's init left
\* in the store: it wrote nothing although the plugin dirs have changed
C16_Witness ==
  /\ last.op = "constructor"
  /\ caching
  /\ Events(log) = <<"begin">>
  /\ plugins # <<>>
  /\ plugins # Rediscovered.enabled

\* C17: what getManifest() leaves under the key 'manifest' is never the
\* object it returns, on a miss as on a hit.
C17_ReturnsFreshWrapper ==
  (last.op = "getManifest" \/ Count(log, "compose") > 0) => ~alias

\* C18: after a reinit every key held in this._componentsCache has an entry
\* in the registry, so getComponent with the default cache returns a
\* reference exactly for the keys the registry defines.
C18_ComponentCacheFollowsRegistry ==
  reinited.done =>
    /\ \A p \in components : RegKey(p[1]) \in DOMAIN getRegistry(M)
    /\ \A key \in ComponentKeys :
         getComponent(M, key, "default").err = "none"
           <=> RegKey(key) \in DOMAIN getRegistry(M)

\* C19: when the plugin's remove() raises, removePlugin raises, does no
\* flush and no reinit, and leaves the plugins field, the manifest field and
\* the store as they were.
C19_RemoveRaises ==
  [][(last'.op = "removePlugin" /\ last'.err = "RemoveError")
       => /\ UNCHANGED <<cacheKeys, cacheVal, plugins, manifest, gen,
                         reinited, components>>
          /\ Events(log') = <<"begin", "remove">>]_vars

\* remove() raised for an enabled global plugin
C19_Witness ==
  /\ last.op = "removePlugin"
  /\ last.err = "RemoveError"
  /\ last.arg = "b"
  /\ "b" \in Range(plugins)

ReadOps == {"getPlugins", "getManifest", "getHooks", "getPlugin",
            "getRegistry", "getComponent", "runHook"}

\* C20: the read operations never flush the store and never change the
\* plugins or manifest field; only reinit(), a successful addPlugin and a
\* successful removePlugin assign them after construction.
C20_ReadsLeaveFields ==
  [][/\ last'.op \in ReadOps =>
          /\ UNCHANGED <<plugins, manifest, gen, disk>>
          /\ Count(log', "flush") = 0
          /\ cacheKeys \subseteq cacheKeys'
     /\ (plugins' # plugins \/ manifest' # manifest \/ Count(log', "flush") > 0)
          => Writers]_vars

\* getPlugins() returned a fresh discovery that differs from the plugins
\* field and left the field alone
C20_Witness ==
  /\ last.op = "getPlugins"
  /\ ~caching
  /\ last.ret # plugins
  /\ components # {}

====
